---- MODULE Spec2Model ----
(***************************************************************************)
(* PESC - Pseudorandom Encryption with Shuffling and Coding (src/pesc.c).  *)
(*                                                                         *)
(* Number representation.  TLC's integers are 32-bit signed, the program's *)
(* seed and subkeys are uint32_t.  A uint32_t value u is held as the       *)
(* record [b31 |-> u \div 2^31, low |-> u % 2^31]; every operation on it   *)
(* below is exact arithmetic modulo 2^32.  A size_t value is held as its   *)
(* two's-complement reading, so SIZE_MAX (the result of 0 - 1) is -1 and   *)
(* the unsigned test "i > 0" is "i # 0".  A char is held as its value      *)
(* modulo 256.  A C string is the sequence of its character codes.         *)
(***************************************************************************)
EXTENDS Integers, Sequences, FiniteSets, TLC

\* ------------------------------------------------------------------ bounds
MaxLen   == 3      \* longest buffer explored
MaxKeys  == 2      \* longest key list explored
MaxDraws == 12     \* draws of the generator explored from one seed
MaxArgc  == 3      \* longest argument vector explored (argv[0] included)

\* -------------------------------------------------------- uint32_t values
M31       == 2147483647
Q127773   == 127773
A16807    == 16807
R2836     == 2836
RAND_MAX  == 65534

U32(b, l) == [b31 |-> b, low |-> l]
Small(n)  == U32(0, n)
Zero32    == Small(0)

\* the remainder and quotient of u by 127773; 2^31 = 16807 * 127773 + 2837
Mod127773(u) == ((u.low % Q127773) + u.b31 * 2837) % Q127773
Div127773(u) ==
    (u.low \div Q127773) + u.b31 * A16807
      + (((u.low % Q127773) + u.b31 * 2837) \div Q127773)

\* u % m for 1 <= m <= 65535; 2^31 = (M31 % m) + 1 modulo m
ModSmall(u, m) == ((u.low % m) + u.b31 * ((M31 % m) + 1)) % m

\* the uint32_t holding the integer d, -2^31 <= d < 2^31, modulo 2^32
Wrap32(d) == IF d >= 0 THEN U32(0, d) ELSE U32(1, (M31 + d) + 1)

\* a + b modulo 2^32
Add32(a, b) ==
    LET carry == a.low > M31 - b.low
        l     == IF carry THEN (a.low - (M31 - b.low)) - 1 ELSE a.low + b.low
    IN  U32((a.b31 + b.b31 + (IF carry THEN 1 ELSE 0)) % 2, l)

\* ---------------------------------------------------------------- random
\* the value the generator substitutes for a zero seed
ZeroSeedConst == U32(1, 1911747572)        \* 0xF1F2F3F4

\* uint32_t v = 16807 * (seed % 127773) - 2836 * (seed / 127773);
\* if (v < 0) v += 2147483647;      -- v is unsigned, the test is never true
ParkMillerStep(s) ==
    LET v == Wrap32(A16807 * Mod127773(s) - R2836 * Div127773(s))
    IN  IF FALSE THEN Add32(v, Small(M31)) ELSE v

random_NoZeroCheck(s) ==
    LET v == ParkMillerStep(s)
    IN  [seed |-> v, ret |-> ModSmall(v, RAND_MAX + 1), on |-> s]

\* one call of random() with the global seed s: the new seed, the value
\* returned, and the seed the step formula was evaluated on
random(s) ==
    LET s1 == IF s = Zero32 THEN ZeroSeedConst ELSE s
        v  == ParkMillerStep(s1)
    IN  [seed |-> v, ret |-> ModSmall(v, RAND_MAX + 1), on |-> s1]

\* ------------------------------------------------------ GenExchangeTable
\* The state handed from one function to the next: the global seed, the
\* buffer, and what the call did (its draws, the exchange table it built,
\* the table and buffer indices its swaps used, whether it faulted).
St(s, d) == [seed |-> s, data |-> d, draws |-> 0, table |-> <<>>,
             acc |-> <<>>, fault |-> FALSE]

Unset == -1            \* a table cell malloc returned and nothing wrote yet

ExTarget_ModLen(r, i, len) == r % len

\* random() % (i + 1): the swap target drawn for buffer position i
ExTarget(r, i, len) == r % (i + 1)

RECURSIVE GenLoop(_, _, _)
\* for (size_t i = len - 1; i > 0; i--) exTable[len-1-i] = random() % (i+1);
\* g = [seed, table, draws, fault]; with len = 0, i starts at SIZE_MAX and
\* i + 1 is 0: the first iteration divides by zero
GenLoop(g, len, i) ==
    IF i = 0 THEN g
    ELSE LET r == random(g.seed)
         IN  IF i + 1 = 0
             THEN [g EXCEPT !.seed = r.seed, !.draws = @ + 1, !.fault = TRUE]
             ELSE GenLoop([g EXCEPT !.seed = r.seed, !.draws = @ + 1,
                                    !.table[(len - 1 - i) + 1] =
                                        ExTarget(r.ret, i, len)],
                          len, i - 1)

\* the table of len-1 swap targets (cell j of the C array is table[j+1])
GenExchangeTable(s, len) ==
    GenLoop([seed |-> s, table |-> [j \in 1..(len - 1) |-> Unset],
             draws |-> 0, fault |-> FALSE], len, len - 1)

\* ---------------------------------------------------- Shuffle / DeShuffle
\* char tmp = data[i]; data[i] = data[n]; data[n] = tmp;
Swap(d, i, n) == [d EXCEPT ![i + 1] = d[n + 1], ![n + 1] = d[i + 1]]

RECURSIVE ShuffleLoop(_, _, _, _, _)
\* for (size_t i = len - 1; i > 0; i--) swap data[i], data[exTable[len-1-i]]
ShuffleLoop(d, acc, tbl, len, i) ==
    IF i = 0 THEN [data |-> d, acc |-> acc]
    ELSE LET t == len - 1 - i
             n == tbl[t + 1]
         IN  ShuffleLoop(Swap(d, i, n), Append(acc, [i |-> i, t |-> t, n |-> n]),
                         tbl, len, i - 1)

RECURSIVE DeShuffleLoop(_, _, _, _, _)
\* for (size_t i = 1; i < len; i++) swap data[i], data[exTable[len-i-1]]
DeShuffleLoop(d, acc, tbl, len, i) ==
    IF ~(i < len) THEN [data |-> d, acc |-> acc]
    ELSE LET t == len - i - 1
             n == tbl[t + 1]
         IN  DeShuffleLoop(Swap(d, i, n), Append(acc, [i |-> i, t |-> t, n |-> n]),
                           tbl, len, i + 1)

Shuffle(st) ==
    LET len == Len(st.data)
        g   == GenExchangeTable(st.seed, len)
        r   == ShuffleLoop(st.data, <<>>, g.table, len, len - 1)
    IN  IF g.fault
        THEN [st EXCEPT !.seed = g.seed, !.draws = g.draws, !.fault = TRUE]
        ELSE [seed |-> g.seed, data |-> r.data, draws |-> g.draws,
              table |-> g.table, acc |-> r.acc, fault |-> FALSE]

DeShuffle_Descending(st) == Shuffle(st)

DeShuffle(st) ==
    LET len == Len(st.data)
        g   == GenExchangeTable(st.seed, len)
        r   == DeShuffleLoop(st.data, <<>>, g.table, len, 1)
    IN  IF g.fault
        THEN [st EXCEPT !.seed = g.seed, !.draws = g.draws, !.fault = TRUE]
        ELSE [seed |-> g.seed, data |-> r.data, draws |-> g.draws,
              table |-> g.table, acc |-> r.acc, fault |-> FALSE]

\* ----------------------------------------------------------- Code / DeCode
RECURSIVE CodeLoop(_, _, _)
\* for (size_t i = 0; i < len; i++) data[i] += sign * (char)(random()%255);
CodeLoop(st, i, sign) ==
    IF ~(i < Len(st.data)) THEN st
    ELSE LET r == random(st.seed)
             m == r.ret % 255
         IN  CodeLoop([st EXCEPT !.seed = r.seed, !.draws = @ + 1,
                                 !.data[i + 1] = (@ + 256 + sign * m) % 256],
                      i + 1, sign)

Code(st)   == CodeLoop([st EXCEPT !.draws = 0, !.table = <<>>, !.acc = <<>>], 0, 1)
DeCode(st) == CodeLoop([st EXCEPT !.draws = 0, !.table = <<>>, !.acc = <<>>], 0, -1)

\* ------------------------------------------------------ Encrypt / Decrypt
EncryptShuffleStep_NoReseed(st, k) == Shuffle(st)

\* seed = keys[i]; Shuffle(data, len);
EncryptShuffleStep(st, k) == Shuffle([st EXCEPT !.seed = k])

\* seed = keys[kn - 1 - i]; Code(data, len);
EncryptCodeStep(st, k) == Code([st EXCEPT !.seed = k])

DecryptDeCodeStep_NoReseed(st, k) == DeCode(st)

\* seed = keys[kn - 1 - i]; DeCode(data, len);
DecryptDeCodeStep(st, k) == DeCode([st EXCEPT !.seed = k])

\* seed = keys[i]; DeShuffle(data, len);
DecryptDeShuffleStep(st, k) == DeShuffle([st EXCEPT !.seed = k])

EncryptLoopCond_OffByOne(i, kn) == i <= kn

\* for (size_t i = 0; i < kn; i++)
EncryptLoopCond(i, kn) == i < kn

\* for (size_t i = kn; i--;) : the test reads i, then i is decremented
DecryptLoopCond(i) == i # 0

\* the index of the subkey Encrypt seeds its Code step with in round i
EncryptCodeKey(i, kn) == kn - 1 - i

DecryptDeCodeKey_Mirrored(i, kn) == i

\* the index of the subkey Decrypt seeds its DeCode step with at index i
DecryptDeCodeKey(i, kn) == kn - 1 - i

RECURSIVE EncryptFrom(_, _, _)
EncryptFrom(st, ks, i) ==
    IF st.fault \/ ~EncryptLoopCond(i, Len(ks)) THEN st
    ELSE LET a == EncryptShuffleStep(st, ks[i + 1])
         IN  IF a.fault THEN a
             ELSE EncryptFrom(
                      EncryptCodeStep(a, ks[EncryptCodeKey(i, Len(ks)) + 1]),
                      ks, i + 1)

\* Encrypt(data, len, keys, kn) run to its return (or to its fault)
Encrypt(st, ks) == EncryptFrom(st, ks, 0)

RECURSIVE DecryptFrom(_, _, _)
DecryptFrom(st, ks, i0) ==
    IF st.fault \/ ~DecryptLoopCond(i0) THEN st
    ELSE LET i == i0 - 1
             a == DecryptDeCodeStep(st, ks[DecryptDeCodeKey(i, Len(ks)) + 1])
         IN  DecryptFrom(DecryptDeShuffleStep(a, ks[i + 1]), ks, i)

\* Decrypt(data, len, keys, kn) run to its return (or to its fault)
Decrypt(st, ks) == DecryptFrom(st, ks, Len(ks))

\* ------------------------------------------------------------------ state
VARIABLES
    pc,         \* where the program is
    seed,       \* uint32_t seed, the generator's only state
    data,       \* the buffer, data[0..len-1]
    keys,       \* the subkeys, keys[0..kn-1]
    i,          \* the loop index of Encrypt, Decrypt or the key split
    step,       \* the next statement pair of the loop body
    orig,       \* the buffer before the first call
    input,      \* the buffer when the running call started
    seed0,      \* the seed when the running call started
    trace,      \* the steps of the running call, <<function, key index>>
    last,       \* what the last Shuffle/Code/DeShuffle/DeCode did
    draw,       \* the last call of random(): count, seed before, result
    status,     \* the exit status of main
    argv,       \* the argument vector
    d,          \* main's decrypt flag
    bigEndian,  \* __BYTE_ORDER__ == __ORDER_BIG_ENDIAN__ in this build
    stdin,      \* the bytes main reads
    stdout,     \* the bytes main has written
    stderr      \* the messages main has written

vars == <<pc, seed, data, keys, i, step, orig, input, seed0, trace, last,
          draw, status, argv, d, bigEndian, stdin, stdout, stderr>>

\* --------------------------------------------------------- explored inputs
SeedAtStart == ZeroSeedConst                 \* uint32_t seed = 0xF1F2F3F4;
KeyFF123456 == U32(1, 2131899478)            \* keys[0] of the test
Key12345678 == U32(0, 305419896)             \* keys[1] of the test
KeyM31      == U32(0, M31)                   \* a subkey whose first draw leaves seed 0

KeyValues == {Zero32, KeyFF123456, Key12345678, KeyM31}
Bytes     == {0, 72, 255}

RECURSIVE SeqsUpTo(_, _)
SeqsUpTo(S, n) ==
    IF n = 0 THEN {<<>>}
    ELSE LET T == SeqsUpTo(S, n - 1)
         IN  T \cup {Append(t, x) : t \in {u \in T : Len(u) = n - 1}, x \in S}

Buffers  == SeqsUpTo(Bytes, MaxLen)
KeyLists == SeqsUpTo(KeyValues, MaxKeys)

\* the seed at program start and seeds an earlier call has left behind: Encrypt
\* returns with the seed of its last Code step, Decrypt with the seed of its
\* last DeShuffle step (0 here: one draw from 2^31 - 1)
StartSeeds ==
    { SeedAtStart,
      EncryptCodeStep(St(SeedAtStart, <<1, 2, 3>>), KeyFF123456).seed,
      DecryptDeShuffleStep(St(SeedAtStart, <<7, 8>>), KeyM31).seed }

Crash == {"SIGFPE", "SIGSEGV"}

NoStep == [op |-> "none", len |-> 0, before |-> <<>>, after |-> <<>>,
           draws |-> 0, table |-> <<>>, acc |-> <<>>]
Did(op, before, r) ==
    [op |-> op, len |-> Len(before), before |-> before, after |-> r.data,
     draws |-> r.draws, table |-> r.table, acc |-> r.acc]

NoDraw == [n |-> 0, prev |-> Zero32, on |-> Zero32, ret |-> 0]

\* keys[idx]; idx outside 0..kn-1 reads past the array: any value
ReadKey(ks, idx) ==
    IF idx >= 0 /\ idx < Len(ks) THEN {ks[idx + 1]} ELSE KeyValues

cliVars == <<status, argv, d, bigEndian, stdin, stdout, stderr>>

\* ------------------------------------------- Encrypt then Decrypt (TEST)
Init ==
    /\ pc = "Encrypt"
    /\ seed \in StartSeeds
    /\ data \in Buffers
    /\ keys \in KeyLists
    /\ i = 0
    /\ step = "Shuffle"
    /\ orig = data
    /\ input = data
    /\ seed0 = seed
    /\ trace = <<>>
    /\ last = NoStep
    /\ draw = NoDraw
    /\ status = "running"
    /\ argv = <<>>
    /\ d = 0
    /\ bigEndian = FALSE
    /\ stdin = <<>>
    /\ stdout = <<>>
    /\ stderr = <<>>

\* one Shuffle/Code/DeShuffle/DeCode step r of the running call
Stepped(op, idx, r, nextStep, nextI) ==
    /\ trace' = Append(trace, <<op, idx>>)
    /\ last' = Did(op, data, r)
    /\ seed' = r.seed
    /\ data' = r.data
    /\ IF r.fault
       THEN /\ pc' \in Crash
            /\ UNCHANGED <<i, step>>
       ELSE /\ pc' = pc
            /\ step' = nextStep
            /\ i' = nextI
    /\ UNCHANGED <<keys, orig, input, seed0, draw>>
    /\ UNCHANGED cliVars

EncryptShuffle ==
    /\ pc = "Encrypt" /\ step = "Shuffle"
    /\ EncryptLoopCond(i, Len(keys))
    /\ \E k \in ReadKey(keys, i) :
           Stepped("Shuffle", i, EncryptShuffleStep(St(seed, data), k), "Code", i)

EncryptCode ==
    /\ pc = "Encrypt" /\ step = "Code"
    /\ \E k \in ReadKey(keys, EncryptCodeKey(i, Len(keys))) :
           Stepped("Code", EncryptCodeKey(i, Len(keys)),
                   EncryptCodeStep(St(seed, data), k), "Shuffle", i + 1)

EncryptReturn ==
    /\ pc = "Encrypt" /\ step = "Shuffle"
    /\ ~EncryptLoopCond(i, Len(keys))
    /\ pc' = "Encrypted"
    /\ UNCHANGED <<seed, data, keys, i, step, orig, input, seed0, trace, last, draw>>
    /\ UNCHANGED cliVars

\* Decrypt(enc, strlen(enc), keys, 4) on the buffer Encrypt returned
CallDecrypt ==
    /\ pc = "Encrypted"
    /\ pc' = "Decrypt"
    /\ i' = Len(keys)
    /\ step' = "DeCode"
    /\ input' = data
    /\ seed0' = seed
    /\ trace' = <<>>
    /\ last' = NoStep
    /\ UNCHANGED <<seed, data, keys, orig, draw>>
    /\ UNCHANGED cliVars

DecryptDeCode ==
    /\ pc = "Decrypt" /\ step = "DeCode"
    /\ DecryptLoopCond(i)
    /\ \E k \in ReadKey(keys, DecryptDeCodeKey(i - 1, Len(keys))) :
           Stepped("DeCode", DecryptDeCodeKey(i - 1, Len(keys)),
                   DecryptDeCodeStep(St(seed, data), k), "DeShuffle", i - 1)

DecryptDeShuffle ==
    /\ pc = "Decrypt" /\ step = "DeShuffle"
    /\ \E k \in ReadKey(keys, i) :
           Stepped("DeShuffle", i, DecryptDeShuffleStep(St(seed, data), k),
                   "DeCode", i)

DecryptReturn ==
    /\ pc = "Decrypt" /\ step = "DeCode"
    /\ ~DecryptLoopCond(i)
    /\ pc' = "Decrypted"
    /\ UNCHANGED <<seed, data, keys, i, step, orig, input, seed0, trace, last, draw>>
    /\ UNCHANGED cliVars

\* if (strcmp(org, enc) == 0) return EXIT_SUCCESS; return EXIT_FAILURE;
TestCompare ==
    /\ pc = "Decrypted"
    /\ pc' = "exit"
    /\ status' = IF data = orig THEN "EXIT_SUCCESS" ELSE "EXIT_FAILURE"
    /\ UNCHANGED <<seed, data, keys, i, step, orig, input, seed0, trace, last, draw>>
    /\ UNCHANGED <<argv, d, bigEndian, stdin, stdout, stderr>>

Next ==
    \/ EncryptShuffle
    \/ EncryptCode
    \/ EncryptReturn
    \/ CallDecrypt
    \/ DecryptDeCode
    \/ DecryptDeShuffle
    \/ DecryptReturn
    \/ TestCompare

Spec == Init /\ [][Next]_vars

\* ------------------------------------------------------------- random()
SampleSeeds ==
    { Zero32, Small(1), Small(16807), Small(127772), Small(127773),
      Small(1000000), Small(M31 - 1), KeyM31, U32(1, 0), U32(1, M31 - 1),
      U32(1, M31), KeyFF123456, Key12345678, SeedAtStart }

InitRandom ==
    /\ pc = "random"
    /\ seed \in SampleSeeds
    /\ draw = NoDraw
    /\ data = <<>> /\ keys = <<>> /\ i = 0 /\ step = "none"
    /\ orig = <<>> /\ input = <<>> /\ seed0 = seed
    /\ trace = <<>> /\ last = NoStep
    /\ status = "running" /\ argv = <<>> /\ d = 0 /\ bigEndian = FALSE
    /\ stdin = <<>> /\ stdout = <<>> /\ stderr = <<>>

\* one call of random()
Draw ==
    /\ pc = "random"
    /\ draw.n < MaxDraws
    /\ LET r == random(seed)
       IN  /\ seed' = r.seed
           /\ draw' = [n |-> draw.n + 1, prev |-> seed, on |-> r.on, ret |-> r.ret]
    /\ UNCHANGED <<pc, data, keys, i, step, orig, input, seed0, trace, last>>
    /\ UNCHANGED cliVars

NextRandom == Draw

SpecRandom == InitRandom /\ [][NextRandom]_vars

\* ----------------------------------------------------------- HexToUInt32
RECURSIVE Pow2(_)
Pow2(n) == IF n = 0 THEN 1 ELSE 2 * Pow2(n - 1)

\* (uint32_t)(dg << sh) for a nibble dg and sh in {0, 4, ..., 28}
ShiftNibble(dg, sh) ==
    IF sh < 28 THEN Small(dg * Pow2(sh))
    ELSE U32(dg \div 8, (dg % 8) * Pow2(28))

\* the shift HexToUInt32 gives character i of a group
NibbleShift(j, be) == IF be THEN (7 - j) * 4 ELSE j * 4

\* the nibble of character code c, or -1 for "Unsupported character in key"
Nibble(c) ==
    IF      c >= 65 /\ c <= 70  THEN c - 65 + 10        \* 'A'..'F'
    ELSE IF c >= 97 /\ c <= 102 THEN c - 97 + 10        \* 'a'..'f'
    ELSE IF c >= 48 /\ c <= 57  THEN c - 48             \* '0'..'9'
    ELSE -1

RECURSIVE HexLoop(_, _, _, _, _)
\* for (size_t i = 0; i < 8; i++) { char tmp = str[start + i]; ... }
HexLoop(str, start, be, j, v) ==
    IF ~(j < 8) THEN [v |-> v, bad |-> FALSE]
    ELSE LET tmp == str[start + j + 1]
         IN  IF Nibble(tmp) < 0 THEN [v |-> v, bad |-> TRUE]
             ELSE HexLoop(str, start, be, j + 1,
                          Add32(v, ShiftNibble(Nibble(tmp), NibbleShift(j, be))))

HexToUInt32(str, start, be) == HexLoop(str, start, be, 0, Zero32)

\* ------------------------------------------------------------ main (CLI)
ProgName == <<112, 101, 115, 99>>                       \* "pesc"
DashD    == <<45, 100>>                                 \* "-d"
Key1F2A3E74 == <<49, 70, 50, 65, 51, 69, 55, 52>>       \* "1F2A3E74"
KeyF0000001 == <<70, 48, 48, 48, 48, 48, 48, 49>>       \* "F0000001"
Key16 == <<48, 48, 48, 48, 48, 48, 48, 48,
           102, 102, 70, 70, 49, 50, 97, 98>>           \* "00000000ffFF12ab"
KeyShort == <<49, 70, 50, 65>>                          \* "1F2A"
KeyBad   == <<49, 50, 51, 52, 53, 54, 55, 71>>          \* "1234567G"

ArgStrings == {DashD, <<>>, Key1F2A3E74, KeyF0000001, Key16, KeyShort, KeyBad}

ArgVectors ==
    {a \in SeqsUpTo(ArgStrings \cup {ProgName}, MaxArgc) :
        /\ Len(a) >= 1
        /\ a[1] = ProgName
        /\ \A j \in 2..Len(a) : a[j] \in ArgStrings}

Usage == "Usage: pesc [-d] key"
Unsupported == "Unsupported character in key"

InitMain ==
    /\ pc = "main"
    /\ argv \in ArgVectors
    /\ stdin \in Buffers
    /\ bigEndian \in BOOLEAN
    /\ seed = SeedAtStart
    /\ d = 0
    /\ data = <<>> /\ keys = <<>> /\ i = 0 /\ step = "none"
    /\ orig = stdin /\ input = <<>> /\ seed0 = seed
    /\ trace = <<>> /\ last = NoStep /\ draw = NoDraw
    /\ status = "running" /\ stdout = <<>> /\ stderr = <<>>

\* the key argument main uses once d is known
KeyArg == argv[1 + d + 1]

\* (argc != 2 && d == 0) || strlen(argv[1 + d]) % 8 != 0
MainUsageCond(argc, dd, a) ==
    \/ (argc # 2 /\ dd = 0)
    \/ Len(a[1 + dd + 1]) % 8 # 0

\* int d = 0; if (argc == 3 && strcmp(argv[1], "-d")==0) d = 1;
\* if (...) { usage; return EXIT_FAILURE; }
MainCheckArgs ==
    /\ pc = "main"
    /\ LET argc == Len(argv)
           dd   == IF argc = 3 /\ argv[2] = DashD THEN 1 ELSE 0
       IN  /\ d' = dd
           /\ IF MainUsageCond(argc, dd, argv)
              THEN /\ stderr' = Append(stderr, Usage)
                   /\ status' = "EXIT_FAILURE"
                   /\ pc' = "exit"
              ELSE /\ pc' = "split"
                   /\ UNCHANGED <<stderr, status>>
    /\ UNCHANGED <<seed, data, keys, i, step, orig, input, seed0, trace, last, draw>>
    /\ UNCHANGED <<argv, bigEndian, stdin, stdout>>

\* for (size_t i = 0; i < kn; i++) keys[i] = HexToUInt32(argv[1 + d], i * 8);
MainSplitKey ==
    /\ pc = "split"
    /\ i < Len(KeyArg) \div 8
    /\ LET r == HexToUInt32(KeyArg, i * 8, bigEndian)
       IN  IF r.bad
           THEN /\ stderr' = Append(stderr, Unsupported)
                /\ status' = "EXIT_FAILURE"
                /\ pc' = "exit"
                /\ UNCHANGED <<keys, i>>
           ELSE /\ keys' = Append(keys, r.v)
                /\ i' = i + 1
                /\ UNCHANGED <<stderr, status, pc>>
    /\ UNCHANGED <<seed, data, step, orig, input, seed0, trace, last, draw>>
    /\ UNCHANGED <<argv, d, bigEndian, stdin, stdout>>

\* while ((c = getc(stdin)) != EOF) data[len++] = (char)c;
MainRead ==
    /\ pc = "split"
    /\ ~(i < Len(KeyArg) \div 8)
    /\ data' = stdin
    /\ pc' = "crypt"
    /\ UNCHANGED <<seed, keys, i, step, orig, input, seed0, trace, last, draw>>
    /\ UNCHANGED cliVars

\* if (d) Decrypt(data, len, keys, kn); else Encrypt(data, len, keys, kn);
MainCrypt ==
    /\ pc = "crypt"
    /\ LET r == IF d = 1 THEN Decrypt(St(seed, data), keys)
                         ELSE Encrypt(St(seed, data), keys)
       IN  /\ seed' = r.seed
           /\ data' = r.data
           /\ pc' \in (IF r.fault THEN Crash ELSE {"print"})
    /\ input' = data
    /\ trace' = <<<<IF d = 1 THEN "Decrypt" ELSE "Encrypt", Len(keys)>>>>
    /\ UNCHANGED <<keys, i, step, orig, seed0, last, draw>>
    /\ UNCHANGED cliVars

\* for (size_t i = 0; i < len; i++) putchar(data[i]); return EXIT_SUCCESS;
MainPrint ==
    /\ pc = "print"
    /\ stdout' = data
    /\ status' = "EXIT_SUCCESS"
    /\ pc' = "exit"
    /\ UNCHANGED <<seed, data, keys, i, step, orig, input, seed0, trace, last, draw>>
    /\ UNCHANGED <<argv, d, bigEndian, stdin, stderr>>

NextMain ==
    \/ MainCheckArgs
    \/ MainSplitKey
    \/ MainRead
    \/ MainCrypt
    \/ MainPrint

SpecMain == InitMain /\ [][NextMain]_vars

\* ------------------------------------------------------------ properties
kn  == Len(keys)
len == Len(orig)

\* C1: after Encrypt and then Decrypt with the same non-empty key list, a
\* non-empty buffer equals, byte for byte, the buffer before Encrypt.
RoundTrip ==
    (pc \in {"Decrypted", "exit"} /\ len >= 1 /\ kn >= 1) => data = orig

RoundTripWitness ==
    /\ pc = "Decrypted" /\ len >= 3 /\ kn >= 2
    /\ keys[1] = keys[2] /\ keys[1] = Zero32
    /\ input # orig /\ data = orig

\* C2: with an empty buffer and a non-empty key list, Encrypt and Decrypt
\* complete without error and leave the buffer empty.
EmptyBufferCompletes ==
    (len = 0 /\ kn >= 1) =>
        /\ pc \notin Crash
        /\ data = <<>>

\* C5: the buffer and seed Encrypt (Decrypt) returns with are those of a run
\* of the same call on the same buffer and keys from any other starting seed.
Deterministic ==
    (len >= 1 /\ kn >= 1) =>
        /\ pc = "Encrypted" =>
              \A s \in StartSeeds :
                  LET r == Encrypt(St(s, input), keys)
                  IN  r.data = data /\ r.seed = seed
        /\ pc = "Decrypted" =>
              \A s \in StartSeeds :
                  LET r == Decrypt(St(s, input), keys)
                  IN  r.data = data /\ r.seed = seed

DeterministicWitness ==
    /\ pc = "Encrypted" /\ len >= 2 /\ kn >= 1
    /\ seed0 # SeedAtStart
    /\ data # input

\* C6: with an empty key list Encrypt and Decrypt return without a fault,
\* without a step or a draw, and leave the buffer and the seed unchanged.
EmptyKeysNoOp ==
    kn = 0 =>
        /\ pc \notin Crash
        /\ data = orig
        /\ seed = seed0
        /\ trace = <<>>
        /\ last = NoStep

EmptyKeysNoOpWitness ==
    /\ kn = 0 /\ pc = "Decrypted" /\ Len(data) >= 2 /\ data = orig

\* the steps the claim names for Encrypt, as <<function, key index>>
ExpectedEncrypt(n) ==
    [t \in 1..(2 * n) |->
        IF t % 2 = 1 THEN <<"Shuffle", (t - 1) \div 2>>
                     ELSE <<"Code", n - 1 - ((t - 2) \div 2)>>]
Inverse(e) == <<IF e[1] = "Shuffle" THEN "DeShuffle" ELSE "DeCode", e[2]>>
ExpectedDecrypt(n) ==
    [t \in 1..(2 * n) |-> Inverse(ExpectedEncrypt(n)[2 * n + 1 - t])]
IsPrefix(a, b) == Len(a) <= Len(b) /\ a = SubSeq(b, 1, Len(a))

\* C8: Encrypt runs Shuffle(keys[0]), Code(keys[kn-1]), ..., Shuffle(keys[kn-1]),
\* Code(keys[0]) in this order; Decrypt runs the inverse steps, with the same
\* key indices, in the reverse order.
StepOrder ==
    kn >= 1 =>
        /\ pc = "Encrypt" => IsPrefix(trace, ExpectedEncrypt(kn))
        /\ pc = "Encrypted" => trace = ExpectedEncrypt(kn)
        /\ pc = "Decrypt" => IsPrefix(trace, ExpectedDecrypt(kn))
        /\ pc \in {"Decrypted", "exit"} => trace = ExpectedDecrypt(kn)
        /\ pc \in Crash => \/ IsPrefix(trace, ExpectedEncrypt(kn))
                           \/ IsPrefix(trace, ExpectedDecrypt(kn))

StepOrderWitness ==
    /\ pc = "Decrypted" /\ kn >= 2 /\ len >= 1
    /\ trace[1] = <<"DeCode", 0>>
    /\ trace[Len(trace)] = <<"DeShuffle", 0>>

\* C9: for a buffer of n >= 1 bytes the exchange table has n-1 entries, entry
\* j is in [0, n-1-j], every swap reads the table inside [0, n-2] and the
\* buffer inside [0, n-1]; for n = 1 there is no draw and the byte stays.
PermutationValid ==
    (last.op \in {"Shuffle", "DeShuffle"} /\ last.len >= 1) =>
        LET n == last.len
        IN  /\ Len(last.table) = n - 1
            /\ \A j \in 0..(n - 2) :
                   last.table[j + 1] >= 0 /\ last.table[j + 1] <= n - 1 - j
            /\ Len(last.acc) = n - 1
            /\ \A a \in 1..Len(last.acc) :
                   /\ last.acc[a].t >= 0 /\ last.acc[a].t <= n - 2
                   /\ last.acc[a].i >= 0 /\ last.acc[a].i <= n - 1
                   /\ last.acc[a].n >= 0 /\ last.acc[a].n <= n - 1
            /\ n = 1 => (last.draws = 0 /\ last.after = last.before)

PermutationValidWitness ==
    /\ last.op = "DeShuffle" /\ last.len >= 3
    /\ last.table[1] = last.len - 1
    /\ last.after # last.before

PermutationSingleByteWitness ==
    /\ last.op = "Shuffle" /\ last.len = 1 /\ last.draws = 0

\* the step the claim describes, on a seed below 2^31
ClaimedStep(s) ==
    LET v == A16807 * (s.low % Q127773) - R2836 * (s.low \div Q127773)
    IN  Small(IF v < 0 THEN v + M31 ELSE v)
InParkMillerRange(s) == s.b31 = 0 /\ s.low >= 1 /\ s.low <= M31 - 1

\* C7: a draw from a seed in [1, 2147483646] leaves the seed
\* 16807*(seed mod 127773) - 2836*(seed div 127773), plus 2147483647 when
\* that is negative, again in [1, 2147483646], and returns it modulo 65535.
GeneratorStep ==
    (draw.n >= 1 /\ InParkMillerRange(draw.prev)) =>
        /\ seed = ClaimedStep(draw.prev)
        /\ InParkMillerRange(seed)
        /\ draw.ret = seed.low % 65535
        /\ draw.ret >= 0 /\ draw.ret <= 65534

\* C10: the step formula is never evaluated on seed 0; a draw that starts
\* with seed 0 returns what a draw started from the constant returns and
\* leaves the same seed.
ZeroSeedReplaced ==
    draw.n >= 1 =>
        /\ draw.on # Zero32
        /\ draw.prev = Zero32 =>
              /\ seed = random(ZeroSeedConst).seed
              /\ draw.ret = random(ZeroSeedConst).ret

ZeroSeedReplacedWitness ==
    /\ draw.n >= 2 /\ draw.prev = Zero32 /\ draw.on = ZeroSeedConst

\* the value of an 8-character hex group read most-significant nibble first
HexDigit(c) ==
    IF c >= 48 /\ c <= 57 THEN c - 48
    ELSE IF c >= 65 /\ c <= 70 THEN c - 55
    ELSE c - 87
IsHex(c) == (c >= 48 /\ c <= 57) \/ (c >= 65 /\ c <= 70) \/ (c >= 97 /\ c <= 102)
MsbFirst(g) ==
    U32(HexDigit(g[1]) \div 8,
        (HexDigit(g[1]) % 8) * 268435456 + HexDigit(g[2]) * 16777216
          + HexDigit(g[3]) * 1048576 + HexDigit(g[4]) * 65536
          + HexDigit(g[5]) * 4096 + HexDigit(g[6]) * 256
          + HexDigit(g[7]) * 16 + HexDigit(g[8]))

\* C3: every subkey main has split off is its 8 hex characters read with the
\* most-significant nibble first.
KeyMsbFirst ==
    pc \in {"split", "crypt", "print"} =>
        \A g \in 1..Len(keys) :
            keys[g] = MsbFirst(SubSeq(KeyArg, 8 * (g - 1) + 1, 8 * g))

KeyLenOk(k) == Len(k) > 0 /\ Len(k) % 8 = 0
GoodInvocation(a) ==
    \/ Len(a) = 2 /\ KeyLenOk(a[2])
    \/ Len(a) = 3 /\ a[2] = DashD /\ KeyLenOk(a[3])

\* C4: with a wrong argument count or a key whose length is 0 or not a
\* multiple of 8, main prints the usage message and exits with failure, never
\* calls Encrypt or Decrypt and writes no output; no call has kn = 0.
UsageRejects ==
    /\ argv # <<>> /\ ~GoodInvocation(argv) =>
          /\ pc \in {"main", "exit"}
          /\ pc = "exit" => (status = "EXIT_FAILURE" /\ stderr = <<Usage>>)
          /\ stdout = <<>>
          /\ trace = <<>>
    /\ pc \in {"print", "exit"} /\ argv # <<>> =>
          \A c \in 1..Len(trace) : trace[c][2] >= 1

====
